---------------------------- MODULE Spec2Model ----------------------------
(***************************************************************************)
(* Model of the alert agent of backend/app/api/v1/alert_agent/router.py:   *)
(* the tools get_contact_phone and search_emergency_manuals, the handler   *)
(* handle_alert (POST /alert) and process_alert_with_agent: agent          *)
(* invocation, the walk over the returned message history, the fallback    *)
(* completion and the AlertResponse.                                       *)
(*                                                                         *)
(* Spec is one request; ConcSpec is several requests interleaved at their  *)
(* suspension points; ToolSpec and SearchSpec call the two tools directly. *)
(*                                                                         *)
(* Strings are TLA+ strings; Len, \o and SubSeq act on them as Python's    *)
(* len, + and slicing do.  The parser accepts ASCII only, so every Chinese *)
(* literal of the source is written in pinyin:                             *)
(*   cangku = 仓库         cangchu = 仓储        kufang = 库房             *)
(*   huocang = 货仓        bangongshi = 办公室   xiezilou = 写字楼         *)
(*   bangonglou = 办公楼   bangongqu = 办公区    huanyijian = 换衣间       *)
(*   gengyishi = 更衣室    gengyijian = 更衣间                             *)
(*   shengchanchejian = 生产车间   chejian = 车间   shengchanqu = 生产区   *)
(*   zhizaochejian = 制造车间      jifang = 机房                           *)
(*   fuwuqijifang = 服务器机房     shujuzhongxin = 数据中心                *)
(*   IDCjifang = IDC机房   shitang = 食堂   canting = 餐厅                 *)
(*   fantang = 饭堂        huiyishi = 会议室     huiyiting = 会议厅        *)
(*   qiatanshi = 洽谈室    weizhididian = 未知地点                         *)
(***************************************************************************)
EXTENDS Integers, Sequences, FiniteSets, TLC

VARIABLES
    pc,                       \* position of the request in handle_alert / process_alert_with_agent
    alert_message,            \* request.alert_message
    messages,                 \* the agent's message history (result["messages"])
    answered,                 \* ids of the tool-call requests whose tool message is in the history
    tool_calls_map,           \* tool_call_id -> [name, args]
    tool_results,             \* list of ToolCallResult
    contact_info,
    emergency_manuals_result,
    final_suggestion,
    agent_outcome,            \* how agent.ainvoke ended: "none", "returned", "raised"
    fallback_outcome,         \* how analysis_chain.ainvoke ended: "none", "returned", "raised"
    fallback_prompt,          \* the variables handed to the fallback prompt
    fallback_value,           \* the text the fallback completion returned
    failed_at,                \* the step whose exception reached handle_alert ("" if none)
    http_status,              \* 0 while the request runs, then 200 or 500
    response,                 \* the AlertResponse body of a 200
    detail,                   \* the detail string of a 500
    tool_log,                 \* direct invocations of the tools: [tool, input, raised, output]
    reqs                      \* the requests in flight at once, each with its own locals

vars == <<pc, alert_message, messages, answered, tool_calls_map, tool_results,
          contact_info, emergency_manuals_result, final_suggestion, agent_outcome,
          fallback_outcome, fallback_prompt, fallback_value, failed_at, http_status,
          response, detail, tool_log, reqs>>

---------------------------------------------------------------------------
(* Bounds of the model *)

\* messages the agent runtime appends after the HumanMessage
MaxMsgs == 3
\* tool-call requests the model makes in one conversation
MaxCalls == 2
\* direct tool invocations recorded in tool_log
MaxToolRuns == 2
\* requests in flight at once
NumRequests == 2

---------------------------------------------------------------------------
(* Python helpers *)

\* s[:n]
Take(s, n) == IF Len(s) <= n THEN s ELSE SubSeq(s, 1, n)

\* sub in s, for strings
Contains(s, sub) ==
    \E i \in 1..(Len(s) - Len(sub) + 1) : SubSeq(s, i, i + Len(sub) - 1) = sub

\* x in list
InList(x, list) == \E i \in 1..Len(list) : list[i] = x

\* sep.join(list)
RECURSIVE Join(_, _)
Join(list, sep) ==
    IF Len(list) = 0 THEN ""
    ELSE IF Len(list) = 1 THEN list[1]
    ELSE list[1] \o sep \o Join(Tail(list), sep)

\* c * n
RECURSIVE Repeat(_, _)
Repeat(c, n) ==
    IF n <= 0 THEN ""
    ELSE IF n = 1 THEN c
    ELSE LET half == Repeat(c, n \div 2)
         IN  half \o half \o (IF n % 2 = 1 THEN c ELSE "")

\* dict.get(key, default)
DictGet(d, key, default) == IF key \in DOMAIN d THEN d[key] ELSE default

\* the empty dict
EmptyDict == [k \in {} |-> ""]

---------------------------------------------------------------------------
(* Tool registry *)

\* the keys of CONTACT_PHONE_MAP, in insertion order
CONTACT_PHONE_KEYS ==
    <<"cangku", "bangongshi", "huanyijian", "shengchanchejian", "jifang",
      "shitang", "huiyishi">>

CONTACT_PHONE_MAP ==
    [loc \in {CONTACT_PHONE_KEYS[i] : i \in 1..Len(CONTACT_PHONE_KEYS)} |->
        CASE loc = "cangku"           -> "13800138001"
          [] loc = "bangongshi"       -> "13800138002"
          [] loc = "huanyijian"       -> "13800138003"
          [] loc = "shengchanchejian" -> "13800138004"
          [] loc = "jifang"           -> "13800138005"
          [] loc = "shitang"          -> "13800138006"
          [] loc = "huiyishi"         -> "13800138007"]

\* the keys of LOCATION_SYNONYMS, in insertion order
LOCATION_SYNONYM_KEYS ==
    <<"cangku", "bangongshi", "huanyijian", "shengchanchejian", "jifang",
      "shitang", "huiyishi">>

LOCATION_SYNONYMS ==
    [loc \in {LOCATION_SYNONYM_KEYS[i] : i \in 1..Len(LOCATION_SYNONYM_KEYS)} |->
        CASE loc = "cangku"           -> <<"cangku", "cangchu", "kufang", "huocang">>
          [] loc = "bangongshi"       -> <<"bangongshi", "xiezilou", "bangonglou", "bangongqu">>
          [] loc = "huanyijian"       -> <<"huanyijian", "gengyishi", "gengyijian">>
          [] loc = "shengchanchejian" -> <<"shengchanchejian", "chejian", "shengchanqu",
                                           "zhizaochejian">>
          [] loc = "jifang"           -> <<"jifang", "fuwuqijifang", "shujuzhongxin",
                                           "IDCjifang">>
          [] loc = "shitang"          -> <<"shitang", "canting", "fantang">>
          [] loc = "huiyishi"         -> <<"huiyishi", "huiyiting", "qiatanshi">>]

\* the loop over LOCATION_SYNONYMS.items(): the first standard name, from
\* position k on, whose synonym list holds the location ("" when none does)
RECURSIVE SynonymMatch(_, _)
SynonymMatch(location, k) ==
    IF k > Len(LOCATION_SYNONYM_KEYS) THEN ""
    ELSE IF InList(location, LOCATION_SYNONYMS[LOCATION_SYNONYM_KEYS[k]])
         THEN LOCATION_SYNONYM_KEYS[k]
         ELSE SynonymMatch(location, k + 1)

\* the "not found" answer without the list of locations
NotFoundText_NoLocations(location) ==
    "weizhaodao didian '" \o location \o "' de fuzeren xinxi."

\* the "not found" answer of get_contact_phone
NotFoundText(location) ==
    "weizhaodao didian '" \o location \o "' de fuzeren xinxi. keyong didian: "
        \o Join(CONTACT_PHONE_KEYS, ", ")

\* how a call ends: it returns a value or raises an exception
Return(value) == [raised |-> FALSE, value |-> value]

Raise(exception) == [raised |-> TRUE, value |-> exception]

\* CONTACT_PHONE_MAP[name], a KeyError when the name is no key
PhoneOf(name) ==
    IF name \in DOMAIN CONTACT_PHONE_MAP
    THEN Return(CONTACT_PHONE_MAP[name])
    ELSE Raise("KeyError")

\* get_contact_phone without the synonym table
get_contact_phone_ExactOnly(location) ==
    IF location \in DOMAIN CONTACT_PHONE_MAP
    THEN PhoneOf(location)
    ELSE Return(NotFoundText(location))

get_contact_phone(location) ==
    IF location \in DOMAIN CONTACT_PHONE_MAP
    THEN PhoneOf(location)
    ELSE IF SynonymMatch(location, 1) # ""
         THEN PhoneOf(SynonymMatch(location, 1))
         ELSE Return(NotFoundText(location))

---------------------------------------------------------------------------
(* Messages of the history: HumanMessage, AIMessage, ToolMessage *)

HumanMessage(content) ==
    [type |-> "human", content |-> content, tool_calls |-> <<>>, tool_call_id |-> ""]

AIMessage(content, tool_calls) ==
    [type |-> "ai", content |-> content, tool_calls |-> tool_calls, tool_call_id |-> ""]

ToolMessage(content, tool_call_id) ==
    [type |-> "tool", content |-> content, tool_calls |-> <<>>,
     tool_call_id |-> tool_call_id]

---------------------------------------------------------------------------
(* Inputs: what the caller, the hosted model and the vector store may give *)

\* request bodies
Alerts == {"cangku zhaohuo le", "weizhi didian baozha"}

\* the length at which the walk cuts a search_emergency_manuals output
TruncLen == 200

\* the suffix the walk adds to a cut output
Ellipsis == "..."

\* what the model may ask for in a tool call: a canonical location, no
\* location at all, a document search, a tool that is not registered, and
\* a call that carries no id (has_id)
ToolCallKinds ==
    { [name |-> "get_contact_phone", args |-> [location |-> "cangku"], has_id |-> TRUE],
      [name |-> "get_contact_phone", args |-> EmptyDict, has_id |-> TRUE],
      [name |-> "search_emergency_manuals", args |-> [query |-> "cangku zhaohuo"],
       has_id |-> TRUE],
      [name |-> "other_tool", args |-> EmptyDict, has_id |-> TRUE],
      [name |-> "get_contact_phone", args |-> [location |-> "jifang"], has_id |-> FALSE] }

\* the id of the n-th tool-call request of a conversation
CallId(n) == "call_" \o ToString(n)

\* text the model may send along with its tool calls
ToolTurnTexts == {"", "zhengzai chaxun"}

\* outputs of search_emergency_manuals: documents of TruncLen and of
\* TruncLen + 1 characters; the last character of the longer one differs
\* from those before
SearchOutputs ==
    { Repeat("m", TruncLen),
      Repeat("m", TruncLen) \o "z" }

\* what the tool node answers to a tool call (kind: [name, args])
ToolOutputs(kind) ==
    IF kind.name = "get_contact_phone"
    THEN IF "location" \in DOMAIN kind.args
         THEN {r.value : r \in {x \in {get_contact_phone(kind.args["location"])} :
                                      ~x.raised}}
         ELSE {"Error: location: field required"}
    ELSE IF kind.name = "search_emergency_manuals"
         THEN SearchOutputs
         ELSE {"Error: " \o kind.name \o " is not a valid tool"}

\* text of an assistant message that carries no tool call
ModelTexts == {"", "jianyi A", "jianyi B"}

\* text the fallback completion may return
FallbackTexts == {"", "houbei jianyi"}

---------------------------------------------------------------------------
(* The walk over the message history (process_alert_with_agent) *)

\* d[key] = value
DictPut(d, key, value) ==
    [k \in (DOMAIN d) \cup {key} |-> IF k = key THEN value ELSE d[k]]

ToolCallResult(tool_name, tool_input, tool_output) ==
    [tool_name |-> tool_name, tool_input |-> tool_input, tool_output |-> tool_output]

\* step 1 of an iteration: the tool calls of an AIMessage go into the map,
\* a call without id is skipped
RECURSIVE RecordToolCalls(_, _)
RecordToolCalls(map, tool_calls) ==
    IF Len(tool_calls) = 0 THEN map
    ELSE LET tool_call == Head(tool_calls)
             call_id   == tool_call.id
             map2      == IF call_id # ""
                          THEN DictPut(map, call_id,
                                       [name |-> tool_call.name, args |-> tool_call.args])
                          ELSE map
         IN  RecordToolCalls(map2, Tail(tool_calls))

\* the contact line with the phone before the location
ContactInfo_Swapped(tool_args, content) ==
    content \o "fuzeren: " \o DictGet(tool_args, "location", "weizhididian")

\* f"{location}负责人: {content}"
ContactInfo(tool_args, content) ==
    DictGet(tool_args, "location", "weizhididian") \o "fuzeren: " \o content

\* the tool output shown with the ellipsis added and nothing cut
ShortOutput_NoCut(text) ==
    IF Len(text) > TruncLen THEN text \o Ellipsis ELSE text

\* the tool output shown for search_emergency_manuals
ShortOutput(text) ==
    IF Len(text) > TruncLen THEN Take(text, TruncLen) \o Ellipsis ELSE text

\* the locals of the walk before its first iteration
WalkStart ==
    [tool_calls_map |-> EmptyDict, tool_results |-> <<>>, contact_info |-> "",
     emergency_manuals_result |-> "", final_suggestion |-> ""]

\* step 2 with the record put in front of the list instead of at its end
WalkToolMessage_Prepends(w, msg) ==
    LET call_id == msg.tool_call_id
    IN  IF call_id # "" /\ call_id \in DOMAIN w.tool_calls_map
        THEN [w EXCEPT !.tool_results =
                           <<ToolCallResult(w.tool_calls_map[call_id].name,
                                            w.tool_calls_map[call_id].args,
                                            msg.content)>> \o @]
        ELSE w

\* step 2 adding a record for every ToolMessage, matched or not
WalkToolMessage_KeepsDangling(w, msg) ==
    LET call_id == msg.tool_call_id
    IN  IF call_id # "" /\ call_id \in DOMAIN w.tool_calls_map
        THEN [w EXCEPT !.tool_results =
                           Append(@, ToolCallResult(w.tool_calls_map[call_id].name,
                                                    w.tool_calls_map[call_id].args,
                                                    msg.content))]
        ELSE [w EXCEPT !.tool_results =
                           Append(@, ToolCallResult("", EmptyDict, msg.content))]

\* step 2 keeping the cut output as emergency_manuals_result
WalkToolMessage_CutsManuals(w, msg) ==
    LET call_id == msg.tool_call_id
        content == msg.content
    IN  IF call_id # "" /\ call_id \in DOMAIN w.tool_calls_map
        THEN LET call_info == w.tool_calls_map[call_id]
                 record    == ToolCallResult(call_info.name, call_info.args, content)
             IN  IF call_info.name = "get_contact_phone"
                 THEN [w EXCEPT !.tool_results = Append(@, record),
                                !.contact_info = ContactInfo(call_info.args, content)]
                 ELSE IF call_info.name = "search_emergency_manuals"
                 THEN [w EXCEPT !.tool_results =
                                    Append(@, [record EXCEPT
                                                 !.tool_output = ShortOutput(content)]),
                                !.emergency_manuals_result = ShortOutput(content)]
                 ELSE [w EXCEPT !.tool_results = Append(@, record)]
        ELSE w

\* step 2 keeping one record per tool name: a later result of the same
\* tool takes the place of the earlier one
WalkToolMessage_Dedup(w, msg) ==
    LET call_id == msg.tool_call_id
        content == msg.content
    IN  IF call_id # "" /\ call_id \in DOMAIN w.tool_calls_map
        THEN LET call_info == w.tool_calls_map[call_id]
                 record    == ToolCallResult(call_info.name, call_info.args,
                                             IF call_info.name = "search_emergency_manuals"
                                             THEN ShortOutput(content) ELSE content)
                 others    == SelectSeq(w.tool_results,
                                        LAMBDA r : r.tool_name # call_info.name)
             IN  IF call_info.name = "get_contact_phone"
                 THEN [w EXCEPT !.tool_results = Append(others, record),
                                !.contact_info = ContactInfo(call_info.args, content)]
                 ELSE IF call_info.name = "search_emergency_manuals"
                 THEN [w EXCEPT !.tool_results = Append(others, record),
                                !.emergency_manuals_result = content]
                 ELSE [w EXCEPT !.tool_results = Append(others, record)]
        ELSE w

\* step 2 of an iteration: a ToolMessage whose id is in the map adds a record
WalkToolMessage(w, msg) ==
    LET call_id == msg.tool_call_id
        content == msg.content
    IN  IF call_id # "" /\ call_id \in DOMAIN w.tool_calls_map
        THEN LET call_info == w.tool_calls_map[call_id]
                 tool_name == call_info.name
                 tool_args == call_info.args
                 record    == ToolCallResult(tool_name, tool_args, content)
             IN  IF tool_name = "get_contact_phone"
                 THEN [w EXCEPT !.tool_results = Append(@, record),
                                !.contact_info = ContactInfo(tool_args, content)]
                 ELSE IF tool_name = "search_emergency_manuals"
                 THEN [w EXCEPT !.tool_results =
                                    Append(@, [record EXCEPT
                                                 !.tool_output = ShortOutput(content)]),
                                !.emergency_manuals_result = content]
                 ELSE [w EXCEPT !.tool_results = Append(@, record)]
        ELSE w

\* step 3 keeping the first reply instead of the last
WalkFinalReply_FirstWins(w, msg) ==
    IF msg.type = "ai" /\ Len(msg.tool_calls) = 0 /\ msg.content # ""
       /\ w.final_suggestion = ""
    THEN [w EXCEPT !.final_suggestion = msg.content]
    ELSE w

\* step 3 taking the text of any assistant message, tool calls or not
WalkFinalReply_AnyAssistantText(w, msg) ==
    IF msg.type = "ai" /\ msg.content # ""
    THEN [w EXCEPT !.final_suggestion = msg.content]
    ELSE w

\* step 3 of an iteration: an AIMessage without tool calls and with text
\* sets the suggestion
WalkFinalReply(w, msg) ==
    IF msg.type = "ai" /\ Len(msg.tool_calls) = 0 /\ msg.content # ""
    THEN [w EXCEPT !.final_suggestion = msg.content]
    ELSE w

\* one iteration of "for msg in messages"
WalkMessage(w, msg) ==
    LET w1 == IF msg.type = "ai" /\ Len(msg.tool_calls) > 0
              THEN [w EXCEPT !.tool_calls_map = RecordToolCalls(@, msg.tool_calls)]
              ELSE w
        w2 == IF msg.type = "tool" THEN WalkToolMessage(w1, msg) ELSE w1
    IN  WalkFinalReply(w2, msg)

\* the whole walk
RECURSIVE WalkAll(_, _)
WalkAll(w, msgs) ==
    IF Len(msgs) = 0 THEN w ELSE WalkAll(WalkMessage(w, Head(msgs)), Tail(msgs))

---------------------------------------------------------------------------
(* The fallback prompt and the response *)

ContactSection(info) == IF info # "" THEN "\nfuzeren xinxi: " \o info ELSE ""

ManualsSection(manuals) == IF manuals # "" THEN "\nyingji shouce cankao: " \o manuals ELSE ""

FallbackInput(alert, info, manuals) ==
    [alert_message |-> alert, contact_section |-> ContactSection(info),
     manuals_section |-> ManualsSection(manuals)]

AlertResponse(original_alert, tool_calls, maintenance_suggestion, info, manuals) ==
    [original_alert |-> original_alert, tool_calls |-> tool_calls,
     maintenance_suggestion |-> maintenance_suggestion, contact_info |-> info,
     emergency_manuals |-> manuals]

\* HTTPException(status_code=500, detail=f"报警处理失败: {str(e)}")
ErrorDetail(e) == "baojing chuli shibai: " \o e

---------------------------------------------------------------------------
(* The request: handle_alert calling process_alert_with_agent *)

\* every tool call the assistant messages of a history carry, in order
RECURSIVE AllToolCalls(_)
AllToolCalls(msgs) ==
    IF Len(msgs) = 0 THEN <<>>
    ELSE Head(msgs).tool_calls \o AllToolCalls(Tail(msgs))

\* the tool calls of one assistant turn: the kinds asked for, numbered from
\* n + 1
TurnCalls(kinds, n) ==
    [i \in 1..Len(kinds) |->
        [id   |-> IF kinds[i].has_id THEN CallId(n + i) ELSE "",
         name |-> kinds[i].name,
         args |-> kinds[i].args]]

\* the sequences of one or two kinds
KindBatches ==
    {<<k>> : k \in ToolCallKinds} \cup {<<k1, k2>> : k1 \in ToolCallKinds, k2 \in ToolCallKinds}

\* a request is received; its text takes no part in any branch of the
\* handler (requests with different texts meet in ConcSpec)
Init ==
    /\ pc = "get_llm"
    /\ alert_message = "cangku zhaohuo le"
    /\ messages = <<>>
    /\ answered = {}
    /\ tool_calls_map = WalkStart.tool_calls_map
    /\ tool_results = WalkStart.tool_results
    /\ contact_info = WalkStart.contact_info
    /\ emergency_manuals_result = WalkStart.emergency_manuals_result
    /\ final_suggestion = WalkStart.final_suggestion
    /\ agent_outcome = "none"
    /\ fallback_outcome = "none"
    /\ fallback_prompt = EmptyDict
    /\ fallback_value = ""
    /\ failed_at = ""
    /\ http_status = 0
    /\ response = EmptyDict
    /\ detail = ""
    /\ tool_log = <<>>
    /\ reqs = <<>>

walk_vars == <<tool_calls_map, tool_results, contact_info,
               emergency_manuals_result, final_suggestion>>

fallback_vars == <<fallback_outcome, fallback_prompt, fallback_value>>

http_vars == <<failed_at, http_status, response, detail>>

\* handle_alert answering an exception with a 200 that carries the error
HandleAlertError_Returns200(step, e) ==
    /\ pc' = "done"
    /\ failed_at' = step
    /\ http_status' = 200
    /\ response' = [detail |-> ErrorDetail(e)]
    /\ UNCHANGED detail

\* the except branch of handle_alert: the exception of step `step`, with
\* message e, ends the request in a 500
HandleAlertError(step, e) ==
    /\ pc' = "done"
    /\ failed_at' = step
    /\ http_status' = 500
    /\ detail' = ErrorDetail(e)
    /\ UNCHANGED response

\* llm = get_llm(streaming=False)
GetLlm ==
    /\ pc = "get_llm"
    /\ pc' = "create_agent"
    /\ UNCHANGED <<alert_message, messages, answered, walk_vars, agent_outcome,
                   fallback_vars, http_vars, tool_log, reqs>>

\* get_llm raises (no usable model configuration): nothing catches it
\* before handle_alert
GetLlmRaises ==
    /\ pc = "get_llm"
    /\ HandleAlertError("get_llm", "llm config error")
    /\ UNCHANGED <<alert_message, messages, answered, walk_vars, agent_outcome,
                   fallback_vars, tool_log, reqs>>

\* agent = create_agent(...); inputs = {"messages": [HumanMessage(...)]}
CreateAgent ==
    /\ pc = "create_agent"
    /\ pc' = "ainvoke"
    /\ messages' = <<HumanMessage(alert_message)>>
    /\ UNCHANGED <<alert_message, answered, walk_vars, agent_outcome,
                   fallback_vars, http_vars, tool_log, reqs>>

\* create_agent raises: it is called before the try block
CreateAgentRaises ==
    /\ pc = "create_agent"
    /\ HandleAlertError("create_agent", "agent construction error")
    /\ UNCHANGED <<alert_message, messages, answered, walk_vars, agent_outcome,
                   fallback_vars, tool_log, reqs>>

\* the text next to the tool calls of a turn: a remark with the first tool
\* calls of a conversation, nothing with later ones
TurnText(msgs) == IF Len(AllToolCalls(msgs)) = 0 THEN "zhengzai chaxun" ELSE ""

\* inside agent.ainvoke: the model answers with tool calls, with or without
\* text next to them
AgentRequestsTools(kinds, text) ==
    /\ pc = "ainvoke"
    /\ text = TurnText(messages)
    /\ Len(messages) < 1 + MaxMsgs
    /\ Len(AllToolCalls(messages)) + Len(kinds) <= MaxCalls
    /\ messages' = Append(messages,
                          AIMessage(text, TurnCalls(kinds, Len(AllToolCalls(messages)))))
    /\ UNCHANGED <<pc, alert_message, answered, walk_vars, agent_outcome,
                   fallback_vars, http_vars, tool_log, reqs>>

\* inside agent.ainvoke: a requested tool has run and its ToolMessage is
\* appended; the requests of a turn are answered in any order
AgentToolMessage(k, out) ==
    /\ pc = "ainvoke"
    /\ Len(messages) < 1 + MaxMsgs
    /\ k \in 1..Len(AllToolCalls(messages))
    /\ LET call == AllToolCalls(messages)[k]
       IN  /\ call.id # ""
           /\ call.id \notin answered
           /\ out \in ToolOutputs(call)
           /\ messages' = Append(messages, ToolMessage(out, call.id))
           /\ answered' = answered \cup {call.id}
    /\ UNCHANGED <<pc, alert_message, walk_vars, agent_outcome,
                   fallback_vars, http_vars, tool_log, reqs>>

\* an id no request made so far carries: the id the next request would get
DanglingId(msgs) == CallId(Len(AllToolCalls(msgs)) + 1)

\* ids of a ToolMessage that answers no request made so far: no id, and an
\* id that no request carries yet (a later request may carry it)
DanglingIds(msgs) == {"", DanglingId(msgs)}

\* inside agent.ainvoke: a ToolMessage whose id no request made so far carries
AgentDanglingToolMessage(id) ==
    /\ pc = "ainvoke"
    /\ Len(messages) < 1 + MaxMsgs
    /\ id \in DanglingIds(messages)
    /\ messages' = Append(messages, ToolMessage("orphan", id))
    /\ UNCHANGED <<pc, alert_message, answered, walk_vars, agent_outcome,
                   fallback_vars, http_vars, tool_log, reqs>>

\* inside agent.ainvoke: the model answers without tool calls
AgentFinalMessage(text) ==
    /\ pc = "ainvoke"
    /\ Len(messages) < 1 + MaxMsgs
    /\ messages' = Append(messages, AIMessage(text, <<>>))
    /\ UNCHANGED <<pc, alert_message, answered, walk_vars, agent_outcome,
                   fallback_vars, http_vars, tool_log, reqs>>

\* result = await agent.ainvoke(inputs); messages = result.get("messages", [])
AgentReturns ==
    /\ pc = "ainvoke"
    /\ pc' = "walk"
    /\ agent_outcome' = "returned"
    /\ UNCHANGED <<alert_message, messages, answered, walk_vars,
                   fallback_vars, http_vars, tool_log, reqs>>

\* agent.ainvoke raises outside any try block
AgentRaises_Propagates ==
    /\ pc = "ainvoke"
    /\ agent_outcome' = "raised"
    /\ messages' = <<>>
    /\ answered' = {}
    /\ HandleAlertError("ainvoke", "gateway error")
    /\ UNCHANGED <<alert_message, walk_vars, fallback_vars, tool_log, reqs>>

\* agent.ainvoke raises and the messages gathered so far are walked
AgentRaises_WalksPartial ==
    /\ pc = "ainvoke"
    /\ pc' = "walk"
    /\ agent_outcome' = "raised"
    /\ UNCHANGED <<alert_message, messages, answered, walk_vars, fallback_vars,
                   http_vars, tool_log, reqs>>

\* agent.ainvoke raises: result and messages are never bound, the except
\* branch logs the exception
AgentRaises ==
    /\ pc = "ainvoke"
    /\ pc' = "check"
    /\ agent_outcome' = "raised"
    /\ messages' = <<>>
    /\ answered' = {}
    /\ UNCHANGED <<alert_message, walk_vars, fallback_vars, http_vars, tool_log, reqs>>

\* the loop "for msg in messages", which holds no suspension point
Walk ==
    /\ pc = "walk"
    /\ LET w == WalkAll(WalkStart, messages)
       IN  /\ tool_calls_map' = w.tool_calls_map
           /\ tool_results' = w.tool_results
           /\ contact_info' = w.contact_info
           /\ emergency_manuals_result' = w.emergency_manuals_result
           /\ final_suggestion' = w.final_suggestion
    /\ pc' = "check"
    /\ UNCHANGED <<alert_message, messages, answered, agent_outcome,
                   fallback_vars, http_vars, tool_log, reqs>>

\* "if not final_suggestion" is false: no fallback
SkipFallback ==
    /\ pc = "check"
    /\ final_suggestion # ""
    /\ pc' = "respond"
    /\ UNCHANGED <<alert_message, messages, answered, walk_vars, agent_outcome,
                   fallback_vars, http_vars, tool_log, reqs>>

\* the fallback completion called whatever the walk found
FallbackReturns_Always(text) ==
    /\ pc = "check"
    /\ fallback_prompt' = FallbackInput(alert_message, contact_info, emergency_manuals_result)
    /\ fallback_outcome' = "returned"
    /\ fallback_value' = text
    /\ final_suggestion' = text
    /\ pc' = "respond"
    /\ UNCHANGED <<alert_message, messages, answered, tool_calls_map, tool_results,
                   contact_info, emergency_manuals_result, agent_outcome, http_vars,
                   tool_log, reqs>>

\* "if not final_suggestion": final_suggestion = await analysis_chain.ainvoke(...)
FallbackReturns(text) ==
    /\ pc = "check"
    /\ final_suggestion = ""
    /\ fallback_prompt' = FallbackInput(alert_message, contact_info, emergency_manuals_result)
    /\ fallback_outcome' = "returned"
    /\ fallback_value' = text
    /\ final_suggestion' = text
    /\ pc' = "respond"
    /\ UNCHANGED <<alert_message, messages, answered, tool_calls_map, tool_results,
                   contact_info, emergency_manuals_result, agent_outcome, http_vars,
                   tool_log, reqs>>

\* the fallback completion raises: the exception leaves process_alert_with_agent
FallbackRaises ==
    /\ pc = "check"
    /\ final_suggestion = ""
    /\ fallback_prompt' = FallbackInput(alert_message, contact_info, emergency_manuals_result)
    /\ fallback_outcome' = "raised"
    /\ HandleAlertError("fallback", "gateway error")
    /\ UNCHANGED <<alert_message, messages, answered, walk_vars, agent_outcome,
                   fallback_value, tool_log, reqs>>

\* return AlertResponse(...), which handle_alert returns with a 200
Respond ==
    /\ pc = "respond"
    /\ response' = AlertResponse(alert_message, tool_results, final_suggestion,
                                 contact_info, emergency_manuals_result)
    /\ http_status' = 200
    /\ pc' = "done"
    /\ UNCHANGED <<alert_message, messages, answered, walk_vars, agent_outcome,
                   fallback_vars, failed_at, detail, tool_log, reqs>>

Next ==
    \/ GetLlm
    \/ GetLlmRaises
    \/ CreateAgent
    \/ CreateAgentRaises
    \/ \E kinds \in KindBatches : \E text \in ToolTurnTexts :
           AgentRequestsTools(kinds, text)
    \/ \E k \in 1..MaxCalls : \E out \in SearchOutputs \cup UNION {ToolOutputs(c) : c \in ToolCallKinds} :
           AgentToolMessage(k, out)
    \/ \E id \in {""} \cup {CallId(n) : n \in 1..(MaxCalls + 1)} :
           AgentDanglingToolMessage(id)
    \/ \E text \in ModelTexts : AgentFinalMessage(text)
    \/ AgentReturns
    \/ AgentRaises
    \/ Walk
    \/ SkipFallback
    \/ \E text \in FallbackTexts : FallbackReturns(text)
    \/ FallbackRaises
    \/ Respond

Spec == Init /\ [][Next]_vars

---------------------------------------------------------------------------
(* search_emergency_manuals and the vector store behind it *)

\* top_k: int = 3
DefaultTopK == 3

\* a retrieved node: content, metadata, and its score in units of 1/100000
\* (has_score: the attribute exists, score_is_none: it holds None)
Node(content, metadata, has_score, score_is_none, score) ==
    [content |-> content, metadata |-> metadata, has_score |-> has_score,
     score_is_none |-> score_is_none, score |-> score]

\* the ranked nodes the collection may hold for a query
SearchCollections ==
    LET d1 == Node("miehuo buzhou", [file_name |-> "xiaofang.pdf"], TRUE, FALSE, 87654)
        d2 == Node("shusan luxian", [source |-> "shouce.md"], TRUE, FALSE, 99996)
        d3 == Node("duandian", EmptyDict, FALSE, FALSE, 0)
        d4 == Node("baojing", [file_name |-> "a.pdf", source |-> "b.md"], TRUE, TRUE, 0)
    IN  { <<>>, <<d1>>, <<d1, d2>>, <<d2, d3>>, <<d1, d4>>, <<d2, d1, d3, d1>> }

\* what a call finds: the Milvus settings ("uri", "host" or "none"), whether
\* the store can be reached, whether the query succeeds, and the collection
SearchEnvs ==
    { [config |-> "none", connects |-> TRUE, retrieves |-> TRUE, nodes |-> <<>>] }
    \cup { [config |-> c, connects |-> FALSE, retrieves |-> TRUE, nodes |-> <<>>] :
               c \in {"uri", "host"} }
    \cup { [config |-> c, connects |-> TRUE, retrieves |-> FALSE, nodes |-> <<>>] :
               c \in {"uri", "host"} }
    \cup { [config |-> c, connects |-> TRUE, retrieves |-> TRUE, nodes |-> n] :
               c \in {"uri", "host"}, n \in SearchCollections }

\* get_milvus_vector_store: the store of the settings, an HTTPException when
\* neither MILVUS_URI nor MILVUS_HOST is set, the client's exception when
\* the store cannot be reached
get_milvus_vector_store(env) ==
    IF env.config \in {"uri", "host"}
    THEN IF env.connects THEN Return(env) ELSE Raise("milvus lianjie shibai")
    ELSE Raise("500: weipeizhi Milvus lianjie xinxi")

\* retriever.retrieve(query) with similarity_top_k = top_k
Retrieve(store, query, top_k) ==
    IF store.retrieves THEN Return(Take(store.nodes, top_k))
    ELSE Raise("milvus chaxun shibai")

\* an integer below 10000 as four digits
FourDigits(n) ==
    (IF n < 10 THEN "000" ELSE IF n < 100 THEN "00" ELSE IF n < 1000 THEN "0" ELSE "")
        \o ToString(n)

\* f"{score:.4f}" for a score given in units of 1/100000; None has no
\* float format
FormatScore(is_none, score) ==
    IF is_none THEN Raise("unsupported format string passed to NoneType.__format__")
    ELSE LET rounded == (score + 5) \div 10
         IN  Return(ToString(rounded \div 10000) \o "." \o FourDigits(rounded % 10000))

\* one iteration of "for i, node in enumerate(nodes, 1)"
FormatNode(i, node) ==
    LET score  == FormatScore(node.has_score /\ node.score_is_none,
                              IF node.has_score THEN node.score ELSE 0)
        source == DictGet(node.metadata, "file_name",
                          DictGet(node.metadata, "source", "weizhi laiyuan"))
    IN  IF score.raised THEN score
        ELSE Return("[wendang" \o ToString(i) \o "] laiyuan: " \o source
                        \o " (xiangguandu: " \o score.value \o ")\n" \o node.content)

\* the loop over the nodes: the list of result texts, or the first exception
RECURSIVE FormatNodes(_, _, _)
FormatNodes(nodes, i, results) ==
    IF i > Len(nodes) THEN Return(results)
    ELSE LET r == FormatNode(i, nodes[i])
         IN  IF r.raised THEN r ELSE FormatNodes(nodes, i + 1, Append(results, r.value))

\* the try block of search_emergency_manuals
SearchBody(query, top_k, env) ==
    LET vector_store == get_milvus_vector_store(env)
    IN  IF vector_store.raised THEN vector_store
        ELSE LET nodes == Retrieve(vector_store.value, query, top_k)
             IN  IF nodes.raised THEN nodes
                 ELSE IF Len(nodes.value) = 0
                 THEN Return("weizhaodao xiangguan de yingji chuli wendang.")
                 ELSE LET results == FormatNodes(nodes.value, 1, <<>>)
                      IN  IF results.raised THEN results
                          ELSE Return("zhaodao " \o ToString(Len(nodes.value))
                                          \o " tiao xiangguan yingji chuli wendang:\n\n"
                                          \o Join(results.value, "\n\n"))

\* search_emergency_manuals without its except branch
search_emergency_manuals_NoExcept(query, top_k, env) == SearchBody(query, top_k, env)

\* search_emergency_manuals: "except Exception as e" turns every exception
\* of the try block into a returned string
search_emergency_manuals(query, top_k, env) ==
    LET body == SearchBody(query, top_k, env)
    IN  IF body.raised THEN Return("chaxun yingji shouce shi chucuo: " \o body.value)
        ELSE body

---------------------------------------------------------------------------
(* The tools called directly: get_contact_phone on every location of the *)
(* tables (ToolSpec), search_emergency_manuals on every state of the     *)
(* vector store (SearchSpec)                                             *)

\* the canonical locations
CanonicalLocations == {CONTACT_PHONE_KEYS[i] : i \in 1..Len(CONTACT_PHONE_KEYS)}

\* every string a synonym list holds
SynonymsOf(name) == {LOCATION_SYNONYMS[name][i] : i \in 1..Len(LOCATION_SYNONYMS[name])}

AllSynonyms == UNION {SynonymsOf(name) : name \in DOMAIN LOCATION_SYNONYMS}

\* locations of neither table: unknown names, the empty string, a prefix
\* of a key, a key with a space, a key in another case, a phone number
UnknownLocations ==
    {"weizhididian", "unknown-place", "", "cang", "cangku ", "Cangku",
     "jifangloushui", "13800138001"}

Locations == CanonicalLocations \cup AllSynonyms \cup UnknownLocations

ToolInit ==
    /\ pc = "tools"
    /\ alert_message = ""
    /\ messages = <<>>
    /\ answered = {}
    /\ tool_calls_map = WalkStart.tool_calls_map
    /\ tool_results = WalkStart.tool_results
    /\ contact_info = WalkStart.contact_info
    /\ emergency_manuals_result = WalkStart.emergency_manuals_result
    /\ final_suggestion = WalkStart.final_suggestion
    /\ agent_outcome = "none"
    /\ fallback_outcome = "none"
    /\ fallback_prompt = EmptyDict
    /\ fallback_value = ""
    /\ failed_at = ""
    /\ http_status = 0
    /\ response = EmptyDict
    /\ detail = ""
    /\ tool_log = <<>>
    /\ reqs = <<>>

\* get_contact_phone.invoke({"location": location})
CallContactPhone(location) ==
    /\ pc = "tools"
    /\ Len(tool_log) < MaxToolRuns
    /\ LET r == get_contact_phone(location)
       IN  tool_log' = Append(tool_log,
                              [tool |-> "get_contact_phone", location |-> location,
                               raised |-> r.raised, output |-> r.value])
    /\ UNCHANGED <<pc, alert_message, messages, answered, walk_vars, agent_outcome,
                   fallback_vars, http_vars, reqs>>

\* what the model may pass as top_k
TopKs == {1, DefaultTopK}

\* search_emergency_manuals.invoke({"query": query, "top_k": top_k})
CallSearch(query, top_k, env) ==
    /\ pc = "search"
    /\ Len(tool_log) < MaxToolRuns
    /\ LET r == search_emergency_manuals(query, top_k, env)
       IN  tool_log' = Append(tool_log,
                              [tool |-> "search_emergency_manuals", query |-> query,
                               top_k |-> top_k, env |-> env,
                               raised |-> r.raised, output |-> r.value])
    /\ UNCHANGED <<pc, alert_message, messages, answered, walk_vars, agent_outcome,
                   fallback_vars, http_vars, reqs>>

ToolNext == \E location \in Locations : CallContactPhone(location)

ToolSpec == ToolInit /\ [][ToolNext]_vars

SearchInit ==
    /\ pc = "search"
    /\ alert_message = ""
    /\ messages = <<>>
    /\ answered = {}
    /\ tool_calls_map = WalkStart.tool_calls_map
    /\ tool_results = WalkStart.tool_results
    /\ contact_info = WalkStart.contact_info
    /\ emergency_manuals_result = WalkStart.emergency_manuals_result
    /\ final_suggestion = WalkStart.final_suggestion
    /\ agent_outcome = "none"
    /\ fallback_outcome = "none"
    /\ fallback_prompt = EmptyDict
    /\ fallback_value = ""
    /\ failed_at = ""
    /\ http_status = 0
    /\ response = EmptyDict
    /\ detail = ""
    /\ tool_log = <<>>
    /\ reqs = <<>>

SearchNext ==
    \E top_k \in TopKs : \E env \in SearchEnvs : CallSearch("cangku zhaohuo", top_k, env)

SearchSpec == SearchInit /\ [][SearchNext]_vars

---------------------------------------------------------------------------
(* Properties of the tools *)

\* the direct invocations of get_contact_phone
ContactRuns == {i \in 1..Len(tool_log) : tool_log[i].tool = "get_contact_phone"}

\* the direct invocations of search_emergency_manuals
SearchRuns == {i \in 1..Len(tool_log) : tool_log[i].tool = "search_emergency_manuals"}

\* C7: for every canonical location L and every synonym S listed for L,
\* get_contact_phone(L) and get_contact_phone(S) return the phone number
\* CONTACT_PHONE_MAP gives for L.
C7_SynonymsReturnMappedPhone ==
    \A i \in ContactRuns : \A L \in CanonicalLocations :
        (tool_log[i].location = L \/ tool_log[i].location \in SynonymsOf(L))
            => /\ ~tool_log[i].raised
               /\ tool_log[i].output = CONTACT_PHONE_MAP[L]

\* a canonical location and one of its synonyms were looked up and gave the
\* same phone number
C7_Witness ==
    \E i, j \in ContactRuns :
        /\ tool_log[i].location = "cangku"
        /\ tool_log[j].location = "kufang"
        /\ tool_log[i].output = "13800138001"
        /\ tool_log[j].output = "13800138001"

\* C8: for every location that is neither a canonical location nor a synonym,
\* get_contact_phone does not raise and returns a string that contains the
\* "not found" sentence naming the location and the name of every canonical
\* location.
C8_UnknownLocationAnswer ==
    \A i \in ContactRuns :
        tool_log[i].location \notin CanonicalLocations \cup AllSynonyms
            => /\ ~tool_log[i].raised
               /\ Contains(tool_log[i].output,
                           "weizhaodao didian '" \o tool_log[i].location
                               \o "' de fuzeren xinxi")
               /\ \A L \in CanonicalLocations : Contains(tool_log[i].output, L)

\* an unknown location was looked up and the answer names it
C8_Witness ==
    \E i \in ContactRuns :
        /\ tool_log[i].location = "weizhididian"
        /\ ~tool_log[i].raised
        /\ Contains(tool_log[i].output, "weizhaodao didian 'weizhididian' de fuzeren xinxi")
        /\ Contains(tool_log[i].output, "huiyishi")

\* s begins with prefix
StartsWith(s, prefix) == Len(s) >= Len(prefix) /\ SubSeq(s, 1, Len(prefix)) = prefix

\* the nodes a run got back: at most top_k of the collection
Returned(run) ==
    IF Len(run.env.nodes) <= run.top_k THEN run.env.nodes
    ELSE SubSeq(run.env.nodes, 1, run.top_k)

\* the store of a run cannot be configured, reached or queried, or one of
\* the returned nodes has a score that cannot be formatted
SearchFails(run) ==
    \/ run.env.config = "none"
    \/ ~run.env.connects
    \/ ~run.env.retrieves
    \/ \E k \in 1..Len(Returned(run)) :
           Returned(run)[k].has_score /\ Returned(run)[k].score_is_none

\* C17: search_emergency_manuals never raises: when the vector store cannot
\* be configured, connected to or queried, or a result cannot be formatted,
\* it returns a string that describes the error; with no match it returns
\* the "no results" string; otherwise it returns the formatted matches, at
\* most top_k of them, each with its source and content.
C17_SearchNeverRaises ==
    \A i \in SearchRuns :
        LET run == tool_log[i]
        IN  /\ ~run.raised
            /\ run.output \in STRING
            /\ SearchFails(run)
                   => StartsWith(run.output, "chaxun yingji shouce shi chucuo: ")
            /\ (~SearchFails(run) /\ Len(Returned(run)) = 0)
                   => run.output = "weizhaodao xiangguan de yingji chuli wendang."
            /\ (~SearchFails(run) /\ Len(Returned(run)) > 0)
                   => /\ StartsWith(run.output,
                                    "zhaodao " \o ToString(Len(Returned(run))) \o " tiao ")
                      /\ Len(Returned(run)) <= run.top_k
                      /\ \A k \in 1..Len(Returned(run)) :
                             /\ Contains(run.output, "[wendang" \o ToString(k) \o "] ")
                             /\ Contains(run.output, Returned(run)[k].content)
                      /\ ~Contains(run.output,
                                   "[wendang" \o ToString(Len(Returned(run)) + 1) \o "] ")

\* one search ran with no Milvus settings and returned the error string,
\* another found two documents and returned both, formatted
C17_Witness ==
    \E i, j \in SearchRuns :
        /\ tool_log[i].env.config = "none"
        /\ ~tool_log[i].raised
        /\ tool_log[i].output
               = "chaxun yingji shouce shi chucuo: 500: weipeizhi Milvus lianjie xinxi"
        /\ Len(tool_log[j].env.nodes) = 2
        /\ tool_log[j].top_k = 3
        /\ tool_log[j].output
               = "zhaodao 2 tiao xiangguan yingji chuli wendang:\n\n"
                     \o "[wendang1] laiyuan: xiaofang.pdf (xiangguandu: 0.8765)\nmiehuo buzhou"
                     \o "\n\n"
                     \o "[wendang2] laiyuan: shouce.md (xiangguandu: 1.0000)\nshusan luxian"

---------------------------------------------------------------------------
(* Properties of a request *)

\* the request is over with a 200
Answered200 == pc = "done" /\ http_status = 200

\* the fields of an AlertResponse
ResponseFields ==
    {"original_alert", "tool_calls", "maintenance_suggestion", "contact_info",
     "emergency_manuals"}

\* the tool names of a list of records, in order
ToolNames(results) == [i \in 1..Len(results) |-> results[i].tool_name]

\* the request with the given id
RequestOf(msgs, id) ==
    CHOOSE c \in {AllToolCalls(msgs)[k] : k \in 1..Len(AllToolCalls(msgs))} : c.id = id

\* message j is a tool message that answers a request of an earlier
\* assistant message
MatchedAt(msgs, j) ==
    /\ msgs[j].type = "tool"
    /\ msgs[j].tool_call_id # ""
    /\ \E i \in 1..(j - 1) :
           /\ msgs[i].type = "ai"
           /\ \E k \in 1..Len(msgs[i].tool_calls) :
                  msgs[i].tool_calls[k].id = msgs[j].tool_call_id

MatchedPositions(msgs) == {j \in 1..Len(msgs) : MatchedAt(msgs, j)}

\* the matched tool messages that answer a call of the named tool
MatchedOf(msgs, name) ==
    {j \in MatchedPositions(msgs) : RequestOf(msgs, msgs[j].tool_call_id).name = name}

\* how many matched tool messages stand at or before position j
Rank(msgs, j) == Cardinality({i \in MatchedPositions(msgs) : i <= j})

\* the text of the last assistant message that has no tool call and some
\* text ("" when there is none)
LastReply(msgs) ==
    LET replies == {j \in 1..Len(msgs) :
                       /\ msgs[j].type = "ai"
                       /\ Len(msgs[j].tool_calls) = 0
                       /\ msgs[j].content # ""}
    IN  IF replies = {} THEN ""
        ELSE msgs[CHOOSE j \in replies : \A i \in replies : i <= j].content

\* the model asked for get_contact_phone and then search_emergency_manuals,
\* and for nothing else, and both calls were answered
ContactThenSearch ==
    /\ agent_outcome = "returned"
    /\ Len(AllToolCalls(messages)) = 2
    /\ AllToolCalls(messages)[1].name = "get_contact_phone"
    /\ AllToolCalls(messages)[2].name = "search_emergency_manuals"
    /\ AllToolCalls(messages)[1].id \in answered
    /\ AllToolCalls(messages)[2].id \in answered

\* the position of the tool message that answers the k-th call: the one
\* that carries its id and follows the request
AnswerPosition(k) ==
    CHOOSE j \in 1..Len(messages) :
        /\ messages[j].type = "tool"
        /\ messages[j].tool_call_id = AllToolCalls(messages)[k].id
        /\ \E i \in 1..(j - 1) :
               \E c \in 1..Len(messages[i].tool_calls) :
                   messages[i].tool_calls[c].id = messages[j].tool_call_id

C2_Original ==
    (pc = "done" /\ agent_outcome = "raised")
        => /\ http_status = 200
           /\ response.maintenance_suggestion # ""
           /\ response.maintenance_suggestion = fallback_value

\* C2 amended: if the agent call raises, the fallback completion is called;
\* when it returns, the request ends in a 200 whose maintenance_suggestion is
\* the returned value (non-empty exactly when that value is); when it raises,
\* the request ends in a 500.
C2_FallbackAfterAgentError ==
    (pc = "done" /\ agent_outcome = "raised")
        => IF fallback_outcome = "returned"
           THEN /\ http_status = 200
                /\ response.maintenance_suggestion = fallback_value
                /\ (response.maintenance_suggestion # "") = (fallback_value # "")
           ELSE /\ fallback_outcome = "raised"
                /\ http_status = 500

\* the agent call raised and the response carries the fallback's text
C2_Witness ==
    /\ Answered200
    /\ agent_outcome = "raised"
    /\ fallback_outcome = "returned"
    /\ response.maintenance_suggestion = "houbei jianyi"

\* C3 as stated: when the gateway throws on every call (the agent call and
\* the fallback completion), the request still ends in a 200 with the
\* fallback's suggestion, no tool call, and empty contact_info and
\* emergency_manuals.
C3_Original ==
    (pc = "done" /\ agent_outcome = "raised" /\ fallback_outcome = "raised")
        => /\ http_status = 200
           /\ response.maintenance_suggestion = fallback_value
           /\ response.tool_calls = <<>>
           /\ response.contact_info = ""
           /\ response.emergency_manuals = ""

\* C3 amended: when the agent call throws and the fallback completion
\* returns, the request ends in a 200 with the fallback's suggestion, no
\* tool call, and empty contact_info and emergency_manuals; when the gateway
\* throws on every call, the fallback throws too and the request ends in a
\* 500 with a detail string and no response body.
C3_GatewayDown ==
    (pc = "done" /\ agent_outcome = "raised")
        => /\ fallback_outcome = "returned"
               => /\ http_status = 200
                  /\ response.maintenance_suggestion = fallback_value
                  /\ response.tool_calls = <<>>
                  /\ response.contact_info = ""
                  /\ response.emergency_manuals = ""
           /\ fallback_outcome = "raised"
               => /\ http_status = 500
                  /\ detail # ""
                  /\ response = EmptyDict

\* the gateway threw on the agent call and on the fallback completion
C3_Witness ==
    /\ pc = "done"
    /\ agent_outcome = "raised"
    /\ fallback_outcome = "raised"
    /\ http_status = 500

\* C4: a request ends in a 500 if and only if the fallback completion fails;
\* no failure of another step ends the request with an error.
C4_Original ==
    pc = "done" => ((http_status = 500) <=> (fallback_outcome = "raised"))

\* C5: a completed request has exactly one of two outcomes: a 200 whose
\* AlertResponse has all five fields set, or a 500 with a detail string; no
\* outcome carries a structure with a field missing.
C5_TwoOutcomes ==
    /\ pc = "done" =>
           \/ /\ http_status = 200
              /\ DOMAIN response = ResponseFields
              /\ response.original_alert = alert_message
              /\ response.maintenance_suggestion \in STRING
              /\ response.contact_info \in STRING
              /\ response.emergency_manuals \in STRING
              /\ \A i \in 1..Len(response.tool_calls) :
                     /\ DOMAIN response.tool_calls[i]
                            = {"tool_name", "tool_input", "tool_output"}
                     /\ response.tool_calls[i].tool_name \in STRING
                     /\ response.tool_calls[i].tool_output \in STRING
              /\ detail = ""
           \/ /\ http_status = 500
              /\ detail # ""
              /\ response = EmptyDict
    /\ pc # "done" => (http_status = 0 /\ response = EmptyDict /\ detail = "")


\* a request answered with a full AlertResponse whose tool_calls is empty
C5_Witness ==
    /\ Answered200
    /\ DOMAIN response = ResponseFields
    /\ response.tool_calls = <<>>
    /\ response.maintenance_suggestion = "houbei jianyi"

\* C6 as stated: when the returned conversation holds no tool call,
\* tool_calls is empty and maintenance_suggestion is the model's text
\* verbatim.
C6_Original ==
    (pc = "done" /\ agent_outcome = "returned" /\ Len(AllToolCalls(messages)) = 0
        /\ \E j \in 1..Len(messages) : messages[j].type = "ai")
        => /\ http_status = 200
           /\ response.tool_calls = <<>>
           /\ response.maintenance_suggestion
                  = messages[CHOOSE j \in 1..Len(messages) :
                                 /\ messages[j].type = "ai"
                                 /\ \A i \in 1..Len(messages) :
                                        messages[i].type = "ai" => i <= j].content

\* C6 amended: when the returned conversation holds no tool call and the
\* model gave some non-empty text, the request ends in a 200 with tool_calls
\* empty and maintenance_suggestion equal to the last non-empty text
\* verbatim; when the model gave no text, the suggestion is the fallback's
\* and tool_calls is still empty.
C6_NoToolCalls ==
    (pc = "done" /\ agent_outcome = "returned" /\ Len(AllToolCalls(messages)) = 0)
        => IF LastReply(messages) # ""
           THEN /\ http_status = 200
                /\ response.tool_calls = <<>>
                /\ response.maintenance_suggestion = LastReply(messages)
                /\ fallback_outcome = "none"
           ELSE /\ fallback_outcome # "none"
                /\ http_status = 200
                       => /\ response.tool_calls = <<>>
                          /\ response.maintenance_suggestion = fallback_value

\* the model answered with text and no tool call, and the response carries
\* that text
C6_Witness ==
    /\ Answered200
    /\ messages = <<HumanMessage(alert_message), AIMessage("jianyi A", <<>>)>>
    /\ response.tool_calls = <<>>
    /\ response.maintenance_suggestion = "jianyi A"

\* the last matched get_contact_phone result of the history (0 when none)
LastContact(msgs) ==
    IF MatchedOf(msgs, "get_contact_phone") = {} THEN 0
    ELSE CHOOSE j \in MatchedOf(msgs, "get_contact_phone") :
             \A i \in MatchedOf(msgs, "get_contact_phone") : i <= j

\* the contact line the claim gives for the matched result at position j
ExpectedContact(msgs, j) ==
    RequestOf(msgs, msgs[j].tool_call_id).args["location"] \o "fuzeren: "
        \o msgs[j].content

\* the index of the request with the given id among the tool calls
RequestIndex(msgs, id) ==
    CHOOSE k \in 1..Len(AllToolCalls(msgs)) : AllToolCalls(msgs)[k].id = id

\* a history as the tool node builds it: every tool message answers an
\* earlier call, and the tool messages stand in the order of the calls
InRequestOrder(msgs) ==
    /\ \A j \in 1..Len(msgs) : msgs[j].type = "tool" => MatchedAt(msgs, j)
    /\ \A i, j \in MatchedPositions(msgs) :
           i < j => RequestIndex(msgs, msgs[i].tool_call_id)
                        < RequestIndex(msgs, msgs[j].tool_call_id)

\* C9 as stated, on the histories whose tool messages stand in request
\* order: for every matched get_contact_phone result with argument
\* location = L and output P, contact_info is "<L>fuzeren: <P>" and the call
\* adds exactly one record to tool_calls.
C9_Original ==
    (Answered200 /\ agent_outcome = "returned" /\ InRequestOrder(messages))
        => /\ \A j \in MatchedOf(messages, "get_contact_phone") :
                  "location" \in DOMAIN RequestOf(messages, messages[j].tool_call_id).args
                      => response.contact_info = ExpectedContact(messages, j)
           /\ Len(response.tool_calls) = Cardinality(MatchedPositions(messages))

\* C9 amended: contact_info is "<L>fuzeren: <P>" for the last matched
\* get_contact_phone result of the history, with argument location = L and
\* output P (an earlier result is overwritten), and every matched
\* get_contact_phone result adds exactly one record to tool_calls, with the
\* call's arguments and output, at its place among the matched results.
C9_ContactInfo ==
    (Answered200 /\ agent_outcome = "returned")
        => /\ LET j == LastContact(messages)
              IN  (j # 0 /\ "location" \in
                                DOMAIN RequestOf(messages, messages[j].tool_call_id).args)
                      => response.contact_info = ExpectedContact(messages, j)
           /\ Len(response.tool_calls) = Cardinality(MatchedPositions(messages))
           /\ \A j \in MatchedOf(messages, "get_contact_phone") :
                  response.tool_calls[Rank(messages, j)]
                      = ToolCallResult("get_contact_phone",
                                       RequestOf(messages, messages[j].tool_call_id).args,
                                       messages[j].content)

\* the model asked for the contact of cangku and then answered: one record,
\* and the contact line of cangku
C9_Witness ==
    /\ Answered200
    /\ Len(messages) = 4
    /\ messages[3] = ToolMessage("13800138001", "call_1")
    /\ messages[4].type = "ai"
    /\ response.contact_info = "cangkufuzeren: 13800138001"
    /\ Len(response.tool_calls) = 1
    /\ response.maintenance_suggestion # ""

\* C10 as stated: the tool_output of every search_emergency_manuals record of
\* a response has at most TruncLen characters.
C10_Original ==
    Answered200
        => \A i \in 1..Len(response.tool_calls) :
               response.tool_calls[i].tool_name = "search_emergency_manuals"
                   => Len(response.tool_calls[i].tool_output) <= TruncLen

\* C10 amended: the tool_output of every search_emergency_manuals record of a
\* response has at most TruncLen characters plus the ellipsis, whatever the
\* length of the raw output.
C10_BoundedOutput ==
    Answered200
        => \A i \in 1..Len(response.tool_calls) :
               response.tool_calls[i].tool_name = "search_emergency_manuals"
                   => Len(response.tool_calls[i].tool_output) <= TruncLen + Len(Ellipsis)

\* a search whose raw output is longer than TruncLen is recorded with
\* TruncLen characters and the ellipsis
C10_Witness ==
    /\ Answered200
    /\ Len(response.emergency_manuals) = TruncLen + 1
    /\ \E i \in 1..Len(response.tool_calls) :
           /\ response.tool_calls[i].tool_name = "search_emergency_manuals"
           /\ Len(response.tool_calls[i].tool_output) = TruncLen + Len(Ellipsis)

---------------------------------------------------------------------------
(* The walk: matching, last reply, fallback, truncation, repeated tools *)

\* the walk over the history the agent returned has run
Walked == agent_outcome = "returned" /\ pc \in {"check", "respond", "done"}

\* some tool message of the history answers no request that precedes it
HasDangling(msgs) ==
    \E j \in 1..Len(msgs) : msgs[j].type = "tool" /\ ~MatchedAt(msgs, j)

\* C11: the walk emits a record for a tool message only if its tool_call_id
\* is the id of a request of an assistant message that precedes it, and the
\* record carries that request's tool name and arguments; a tool message
\* that answers no earlier request adds no record and does not fail the
\* request: after such a walk the request ends in a 500 only if the fallback
\* completion raised.
C11_RecordsOnlyForMatched ==
    Walked
        => /\ Len(tool_results) = Cardinality(MatchedPositions(messages))
           /\ \A j \in MatchedPositions(messages) :
                  LET request == RequestOf(messages, messages[j].tool_call_id)
                      record  == tool_results[Rank(messages, j)]
                  IN  /\ record.tool_name = request.name
                      /\ record.tool_input = request.args
           /\ failed_at \in {"", "fallback"}
           /\ (pc = "done" /\ fallback_outcome # "raised") => http_status = 200

\* a tool message carries the id call_1 before any request does, the request
\* with that id follows and is answered: the response holds one record, the
\* one of the answer that follows the request
C11_Witness ==
    /\ Answered200
    /\ Len(messages) = 4
    /\ messages[2].type = "tool" /\ messages[2].tool_call_id = "call_1"
    /\ messages[3].type = "ai" /\ Len(messages[3].tool_calls) = 1
    /\ messages[3].tool_calls[1].id = "call_1"
    /\ messages[4].type = "tool" /\ messages[4].tool_call_id = "call_1"
    /\ HasDangling(messages)
    /\ Len(response.tool_calls) = 1
    /\ response.tool_calls[1].tool_output = messages[4].content
    /\ response.tool_calls[1].tool_name = messages[3].tool_calls[1].name

---------------------------------------------------------------------------
(* Concurrent requests: several handle_alert coroutines on one event loop *)

Requests == 1..NumRequests

\* a request before handle_alert runs
IdleRequest(alert) ==
    [pc |-> "idle", alert_message |-> alert, after_others |-> FALSE,
     messages |-> <<>>, locals |-> WalkStart, agent_outcome |-> "none",
     fallback_outcome |-> "none", fallback_prompt |-> EmptyDict, fallback_value |-> "",
     http_status |-> 0, response |-> EmptyDict, detail |-> ""]

\* the histories agent.ainvoke may return: contact and search asked for in
\* one turn, answered, and a final reply; a contact call answered and no
\* final reply; a final reply at once
ConcHistories(alert) ==
    LET contact == [name |-> "get_contact_phone", args |-> [location |-> "cangku"],
                    has_id |-> TRUE]
        search  == [name |-> "search_emergency_manuals",
                    args |-> [query |-> "cangku zhaohuo"], has_id |-> TRUE]
        phone   == get_contact_phone("cangku").value
    IN  { <<HumanMessage(alert), AIMessage("", TurnCalls(<<contact, search>>, 0)),
            ToolMessage(phone, CallId(1)),
            ToolMessage(Repeat("m", TruncLen) \o "z", CallId(2)),
            AIMessage("jianyi A", <<>>)>>,
          <<HumanMessage(alert), AIMessage("", TurnCalls(<<contact>>, 0)),
            ToolMessage(phone, CallId(1))>>,
          <<HumanMessage(alert), AIMessage("jianyi B", <<>>)>> }

\* every history agent.ainvoke may return to some request
ConcAllHistories == UNION {ConcHistories(alert) : alert \in Alerts}

ConcInit ==
    /\ pc = "concurrent"
    /\ alert_message = ""
    /\ messages = <<>>
    /\ answered = {}
    /\ tool_calls_map = WalkStart.tool_calls_map
    /\ tool_results = WalkStart.tool_results
    /\ contact_info = WalkStart.contact_info
    /\ emergency_manuals_result = WalkStart.emergency_manuals_result
    /\ final_suggestion = WalkStart.final_suggestion
    /\ agent_outcome = "none"
    /\ fallback_outcome = "none"
    /\ fallback_prompt = EmptyDict
    /\ fallback_value = ""
    /\ failed_at = ""
    /\ http_status = 0
    /\ response = EmptyDict
    /\ detail = ""
    /\ tool_log = <<>>
    /\ reqs \in [Requests -> {IdleRequest(alert) : alert \in Alerts}]

single_vars == <<pc, alert_message, messages, answered, walk_vars, agent_outcome,
                 fallback_vars, http_vars, tool_log>>

\* the locals of request r taken from a request that waits for its fallback
ConcLocals_SharedInFlight(rs, r) ==
    IF \E q \in DOMAIN rs : q # r /\ rs[q].pc = "fallback"
    THEN rs[CHOOSE q \in DOMAIN rs : q # r /\ rs[q].pc = "fallback"].locals
    ELSE rs[r].locals

\* the locals of request r left over from a request that has ended
ConcLocals_KeptFromLast(rs, r) ==
    IF \E q \in DOMAIN rs : q # r /\ rs[q].pc = "done"
    THEN rs[CHOOSE q \in DOMAIN rs : q # r /\ rs[q].pc = "done"].locals
    ELSE rs[r].locals

\* tool_results, contact_info, emergency_manuals_result and final_suggestion
\* are locals of the coroutine: each invocation reads and writes its own
ConcLocals(rs, r) == rs[r].locals

\* the response of request r, built from its locals
ConcRespond(req, w, suggestion) ==
    [req EXCEPT !.pc = "done", !.locals = w, !.http_status = 200,
                !.response = AlertResponse(req.alert_message, w.tool_results, suggestion,
                                           w.contact_info, w.emergency_manuals_result)]

\* the steps of process_alert_with_agent after agent.ainvoke up to the next
\* suspension point: the end of the request when the walk found a reply,
\* the fallback call otherwise
ConcAfterAgent(req, w) ==
    IF w.final_suggestion # ""
    THEN ConcRespond(req, w, w.final_suggestion)
    ELSE [req EXCEPT !.pc = "fallback", !.locals = w,
                     !.fallback_prompt = FallbackInput(req.alert_message, w.contact_info,
                                                       w.emergency_manuals_result)]

\* handle_alert up to "await agent.ainvoke(inputs)": the locals are set
ConcBegin(r) ==
    /\ reqs[r].pc = "idle"
    /\ reqs' = [reqs EXCEPT ![r] =
                   [@ EXCEPT !.pc = "ainvoke", !.locals = WalkStart,
                             !.after_others =
                                 \A q \in Requests \ {r} : reqs[q].pc = "done"]]
    /\ UNCHANGED single_vars

\* get_llm or create_agent raises: handle_alert answers 500
ConcBeginRaises(r) ==
    /\ reqs[r].pc = "idle"
    /\ reqs' = [reqs EXCEPT ![r] =
                   [@ EXCEPT !.pc = "done", !.http_status = 500,
                             !.detail = ErrorDetail("llm config error"),
                             !.after_others =
                                 \A q \in Requests \ {r} : reqs[q].pc = "done"]]
    /\ UNCHANGED single_vars

\* agent.ainvoke returns to request r, which walks the history
ConcAgentReturns(r, history) ==
    /\ reqs[r].pc = "ainvoke"
    /\ history \in ConcHistories(reqs[r].alert_message)
    /\ LET w == WalkAll(ConcLocals(reqs, r), history)
       IN  reqs' = [reqs EXCEPT ![r] =
                       ConcAfterAgent([@ EXCEPT !.messages = history,
                                                !.agent_outcome = "returned"], w)]
    /\ UNCHANGED single_vars

\* agent.ainvoke raises in request r
ConcAgentRaises(r) ==
    /\ reqs[r].pc = "ainvoke"
    /\ reqs' = [reqs EXCEPT ![r] =
                   ConcAfterAgent([@ EXCEPT !.agent_outcome = "raised"],
                                  ConcLocals(reqs, r))]
    /\ UNCHANGED single_vars

\* the fallback completion returns to request r
ConcFallbackReturns(r, text) ==
    /\ reqs[r].pc = "fallback"
    /\ reqs' = [reqs EXCEPT ![r] =
                   ConcRespond([@ EXCEPT !.fallback_outcome = "returned",
                                         !.fallback_value = text],
                               ConcLocals(reqs, r), text)]
    /\ UNCHANGED single_vars

\* the fallback completion raises in request r: handle_alert answers 500
ConcFallbackRaises(r) ==
    /\ reqs[r].pc = "fallback"
    /\ reqs' = [reqs EXCEPT ![r] =
                   [@ EXCEPT !.pc = "done", !.fallback_outcome = "raised",
                             !.http_status = 500,
                             !.detail = ErrorDetail("gateway error")]]
    /\ UNCHANGED single_vars

ConcNext ==
    \E r \in Requests :
        \/ ConcBegin(r)
        \/ ConcBeginRaises(r)
        \/ \E history \in ConcAllHistories : ConcAgentReturns(r, history)
        \/ ConcAgentRaises(r)
        \/ \E text \in FallbackTexts : ConcFallbackReturns(r, text)
        \/ ConcFallbackRaises(r)

ConcSpec == ConcInit /\ [][ConcNext]_vars

\* what request r answers when nothing but its own alert_message and the
\* answers given to it are taken into account
OwnOutcome(req) ==
    LET w == IF req.agent_outcome = "returned"
             THEN WalkAll(WalkStart, req.messages) ELSE WalkStart
        suggestion == IF w.final_suggestion # "" THEN w.final_suggestion
                      ELSE req.fallback_value
    IN  IF req.agent_outcome = "none" \/ req.fallback_outcome = "raised"
        THEN [http_status |-> 500, response |-> EmptyDict]
        ELSE [http_status |-> 200,
              response |-> AlertResponse(req.alert_message, w.tool_results, suggestion,
                                         w.contact_info, w.emergency_manuals_result)]

\* C12: under every interleaving of the requests, the status and the body
\* each request answers are those that follow from its own alert_message and
\* from the agent and fallback answers given to it, whatever the other
\* requests did; the contact and synonym tables are read, never written.
C12_NoInterference ==
    \A r \in DOMAIN reqs :
        reqs[r].pc = "done"
            => /\ reqs[r].http_status = OwnOutcome(reqs[r]).http_status
               /\ reqs[r].response = OwnOutcome(reqs[r]).response

\* request 1 waited for its fallback with a contact record while request 2,
\* with another alert, was answered by the agent; both ended in a 200, each
\* with its own records
C12_Witness ==
    /\ pc = "concurrent"
    /\ reqs[1].pc = "done" /\ reqs[2].pc = "done"
    /\ reqs[1].alert_message # reqs[2].alert_message
    /\ ~reqs[1].after_others /\ ~reqs[2].after_others
    /\ reqs[1].http_status = 200 /\ reqs[2].http_status = 200
    /\ reqs[1].fallback_outcome = "returned" /\ Len(reqs[1].response.tool_calls) = 1
    /\ reqs[2].fallback_outcome = "none" /\ Len(reqs[2].response.tool_calls) = 2
    /\ reqs[1].response.original_alert = reqs[1].alert_message
    /\ reqs[2].response.original_alert = reqs[2].alert_message

\* the requests got the same alert_message and the same answers
SameInputs(a, b) ==
    /\ a.alert_message = b.alert_message
    /\ a.agent_outcome = b.agent_outcome
    /\ a.messages = b.messages
    /\ a.fallback_outcome = b.fallback_outcome
    /\ a.fallback_value = b.fallback_value

\* C13: two requests with the same alert_message that are given the same
\* agent and fallback answers end with the same status and the same
\* AlertResponse body, also when one starts after the other has ended.
C13_Idempotent ==
    \A a, b \in DOMAIN reqs :
        (reqs[a].pc = "done" /\ reqs[b].pc = "done" /\ SameInputs(reqs[a], reqs[b]))
            => /\ reqs[a].http_status = reqs[b].http_status
               /\ reqs[a].response = reqs[b].response
               /\ reqs[a].detail = reqs[b].detail

\* request 2 began after request 1 had ended, with the same alert and the
\* same answers, two tool records among them: the two bodies are equal
C13_Witness ==
    /\ pc = "concurrent"
    /\ reqs[1].pc = "done" /\ reqs[2].pc = "done"
    /\ reqs[2].after_others /\ ~reqs[1].after_others
    /\ SameInputs(reqs[1], reqs[2])
    /\ reqs[1].http_status = 200
    /\ Len(reqs[1].response.tool_calls) = 2
    /\ reqs[1].response = reqs[2].response

\* C14: after the walk, final_suggestion (the maintenance_suggestion of the
\* response unless the fallback replaces an empty one) is the content of the
\* last assistant message that has no tool call and some text, "" when the
\* history holds none: a later such message overwrites an earlier one, and an
\* assistant message with tool calls or with empty content never sets it.
C14_LastReplyWins ==
    /\ (agent_outcome = "returned" /\ pc = "check")
           => final_suggestion = LastReply(messages)
    /\ (Answered200 /\ agent_outcome = "returned" /\ LastReply(messages) # "")
           => response.maintenance_suggestion = LastReply(messages)

\* two replies and then an assistant message with tool calls and text: the
\* response carries the second reply
C14_Witness ==
    /\ Answered200
    /\ Len(messages) = 4
    /\ messages[2].type = "ai" /\ Len(messages[2].tool_calls) = 0
    /\ messages[2].content = "jianyi A"
    /\ messages[3].type = "ai" /\ Len(messages[3].tool_calls) = 0
    /\ messages[3].content = "jianyi B"
    /\ messages[4].type = "ai" /\ Len(messages[4].tool_calls) > 0
    /\ messages[4].content = "zhengzai chaxun"
    /\ response.maintenance_suggestion = "jianyi B"

\* C15: for a request whose agent call was made, the fallback completion is
\* called exactly when the walk set no suggestion (the agent call raised, or
\* the history holds no assistant message without tool calls and with
\* text); its prompt then carries the alert of the request, the contact
\* section built from contact_info and the manuals section built from
\* emergency_manuals_result, each section empty when its value is empty;
\* when the agent gave a final reply the fallback is not called.
C15_FallbackIffNoReply ==
    (pc \in {"respond", "done"} /\ agent_outcome # "none")
        => /\ (fallback_outcome # "none")
                  <=> (agent_outcome = "raised" \/ LastReply(messages) = "")
           /\ fallback_outcome # "none"
                  => /\ fallback_prompt.alert_message = alert_message
                     /\ fallback_prompt.contact_section
                            = (IF contact_info = "" THEN ""
                               ELSE "\nfuzeren xinxi: " \o contact_info)
                     /\ fallback_prompt.manuals_section
                            = (IF emergency_manuals_result = "" THEN ""
                               ELSE "\nyingji shouce cankao: " \o emergency_manuals_result)
           /\ fallback_outcome = "none" => fallback_prompt = EmptyDict

\* the agent returned a contact result and no reply: the fallback was called
\* with the contact section and without the manuals section
C15_Witness ==
    /\ Answered200
    /\ agent_outcome = "returned"
    /\ fallback_outcome = "returned"
    /\ contact_info = "cangkufuzeren: 13800138001"
    /\ emergency_manuals_result = ""
    /\ fallback_prompt.alert_message = "cangku zhaohuo le"
    /\ fallback_prompt.contact_section = "\nfuzeren xinxi: cangkufuzeren: 13800138001"
    /\ fallback_prompt.manuals_section = ""
    /\ response.maintenance_suggestion = "houbei jianyi"

\* the last matched tool message that answers a call of the named tool (0
\* when there is none)
LastMatchedOf(msgs, name) ==
    IF MatchedOf(msgs, name) = {} THEN 0
    ELSE CHOOSE j \in MatchedOf(msgs, name) : \A i \in MatchedOf(msgs, name) : i <= j

\* the output shown for a search result R as the claim gives it
ExpectedShown(R) ==
    IF Len(R) > 200 THEN SubSeq(R, 1, 200) \o "..." ELSE R

\* C16 as stated: for every matched search_emergency_manuals result with raw
\* output R, the record's tool_output is R cut to 200 characters plus the
\* ellipsis when R is longer and R otherwise, and emergency_manuals is R.
C16_Original ==
    (Answered200 /\ agent_outcome = "returned" /\ InRequestOrder(messages))
        => \A j \in MatchedOf(messages, "search_emergency_manuals") :
               /\ response.tool_calls[Rank(messages, j)].tool_output
                      = ExpectedShown(messages[j].content)
               /\ response.emergency_manuals = messages[j].content

\* C16 amended: for every matched search_emergency_manuals result with raw
\* output R, the record's tool_output is R cut to 200 characters plus the
\* ellipsis when R is longer and R otherwise; emergency_manuals is the whole
\* output of the last matched search_emergency_manuals result of the
\* history (an earlier one is overwritten).
C16_CutRecordFullManuals ==
    (Answered200 /\ agent_outcome = "returned")
        => /\ \A j \in MatchedOf(messages, "search_emergency_manuals") :
                  response.tool_calls[Rank(messages, j)].tool_output
                      = ExpectedShown(messages[j].content)
           /\ LET j == LastMatchedOf(messages, "search_emergency_manuals")
              IN  j # 0 => response.emergency_manuals = messages[j].content

\* a search answered with TruncLen + 1 characters: the record shows the
\* first TruncLen and the ellipsis, emergency_manuals holds them all
C16_Witness ==
    /\ Answered200
    /\ Len(response.tool_calls) = 1
    /\ response.tool_calls[1].tool_name = "search_emergency_manuals"
    /\ response.tool_calls[1].tool_output = Repeat("m", 200) \o "..."
    /\ response.emergency_manuals = Repeat("m", 200) \o "z"

\* C19: the walk keeps one record per matched tool message, in the order of
\* the tool messages and without merging results of the same tool, each
\* with the name and arguments of its request and, for every tool but
\* search_emergency_manuals, the content of the tool message; contact_info
\* comes from the last matched get_contact_phone result and
\* emergency_manuals_result is the output of the last matched
\* search_emergency_manuals result ("" when there is none), so that a
\* matched result of any other tool adds its record and changes neither.
C19_OneRecordPerResult ==
    Walked
        => /\ Len(tool_results) = Cardinality(MatchedPositions(messages))
           /\ \A j \in MatchedPositions(messages) :
                  LET request == RequestOf(messages, messages[j].tool_call_id)
                      record  == tool_results[Rank(messages, j)]
                  IN  /\ record.tool_name = request.name
                      /\ record.tool_input = request.args
                      /\ request.name # "search_emergency_manuals"
                             => record.tool_output = messages[j].content
           /\ LET j == LastMatchedOf(messages, "get_contact_phone")
              IN  contact_info
                      = (IF j = 0 THEN ""
                         ELSE DictGet(RequestOf(messages, messages[j].tool_call_id).args,
                                      "location", "weizhididian")
                                  \o "fuzeren: " \o messages[j].content)
           /\ LET j == LastMatchedOf(messages, "search_emergency_manuals")
              IN  emergency_manuals_result = (IF j = 0 THEN "" ELSE messages[j].content)

\* get_contact_phone asked for twice with the same location and answered
\* twice: two records, alike, and the contact line of the second result.
C19_Witness ==
    /\ Answered200
    /\ Len(response.tool_calls) = 2
    /\ response.tool_calls[1] = response.tool_calls[2]
    /\ response.tool_calls[1].tool_name = "get_contact_phone"
    /\ response.contact_info = "cangkufuzeren: 13800138001"
    /\ response.emergency_manuals = ""

=============================================================================
